---------------------------- MODULE Spec2Model ----------------------------
(***************************************************************************)
(* Model of net.js: the GeoLite2 ASN database load, the /scan request      *)
(* handler, normalizeIp and isVPN.                                         *)
(*                                                                         *)
(* JavaScript strings are sequences of UTF-16 code units.  A value that    *)
(* may be null is a tagged record: Null or Str(s).                         *)
(***************************************************************************)
EXTENDS Naturals, Sequences, FiniteSets

VARIABLES
  lookup,      \* net.js:20  the module-level reader reference: "null" or "reader"
  loadState,   \* net.js:21  the promise of maxmind.open: "pending", "resolved", "rejected"
  running,     \* whether the node process is still alive
  db,          \* the content of the GeoLite2-ASN.mmdb file (fixed for the process lifetime)
  req,         \* the last /scan request served (Null before the first one)
  res,         \* the response of that request and what the handler did to produce it
  ipRaw,       \* normalizeIp: its argument
  ip,          \* normalizeIp: its local variable ip
  npc,         \* normalizeIp: the next line to execute
  ret,         \* normalizeIp: the returned value
  asn,         \* isVPN: its argument asnInfo
  org,         \* isVPN: its local variable org
  vpc,         \* isVPN: the next line to execute
  vret,        \* isVPN: the returned value
  verdict,     \* the body the handler sends for that value
  seen         \* an earlier request and its response, kept for comparison

vars ==
  <<lookup, loadState, running, db, req, res, ipRaw, ip, npc, ret, asn, org, vpc, vret,
    verdict, seen>>
serverVars == <<lookup, loadState, running, db, req, res, seen>>
normVars == <<ipRaw, ip, npc, ret>>
vpnVars == <<asn, org, vpc, vret, verdict>>

Null == [t |-> "null"]
Str(s) == [t |-> "string", v |-> s]

\* JavaScript truthiness of a string-or-null value: null and the empty string are falsy.
Truthy(x) == x # Null /\ x.v # <<>>

-----------------------------------------------------------------------------
(* JavaScript strings *)

(***************************************************************************)
(* A JavaScript string is the sequence of its UTF-16 code units, numbers   *)
(* in 0..65535; the empty string is <<>>.  U("...") is the string a        *)
(* literal of printable ASCII characters denotes.                          *)
(***************************************************************************)
Printable ==
  " !\"#$%&'()*+,-./0123456789:;<=>?@ABCDEFGHIJKLMNOPQRSTUVWXYZ[\\]^_"

LowerCaseLetters == "abcdefghijklmnopqrstuvwxyz{|}~"

\* The code unit of a character of Printable (U+0020 to U+005F) or of
\* LowerCaseLetters (U+0061 to U+007E).
CodeOf(c) ==
  IF \E i \in 1..Len(Printable) : SubSeq(Printable, i, i) = c
  THEN 31 + (CHOOSE i \in 1..Len(Printable) : SubSeq(Printable, i, i) = c)
  ELSE 96 + (CHOOSE i \in 1..Len(LowerCaseLetters) : SubSeq(LowerCaseLetters, i, i) = c)

RECURSIVE U(_)
U(s) == IF s = "" THEN <<>> ELSE <<CodeOf(SubSeq(s, 1, 1))>> \o U(SubSeq(s, 2, Len(s)))

\* The code units String.prototype.trim removes: WhiteSpace (TAB, VT, FF, SP,
\* NBSP, ZWNBSP and the category Zs) and LineTerminator (LF, CR, LS, PS).
WhiteSpace ==
  {9, 10, 11, 12, 13, 32, 160, 5760, 8232, 8233, 8239, 8287, 12288, 65279} \cup (8192..8202)

CharAt(s, i) == s[i]

\* String.prototype.indexOf(sub, from - 1) + 1: the first position >= from at
\* which sub occurs in s, 0 when there is none.
IndexFrom(s, sub, from) ==
  LET hits == {i \in from..(Len(s) + 1 - Len(sub)) : SubSeq(s, i, i + Len(sub) - 1) = sub}
  IN IF hits = {} THEN 0 ELSE CHOOSE i \in hits : \A j \in hits : i <= j

includes(s, sub) == IndexFrom(s, sub, 1) # 0

startsWith(s, p) == Len(s) >= Len(p) /\ SubSeq(s, 1, Len(p)) = p

\* String.prototype.split(sep) for a non-empty separator: the pieces between
\* successive non-overlapping occurrences of sep, scanning left to right.
RECURSIVE split(_, _)
split(s, sep) ==
  LET i == IndexFrom(s, sep, 1)
  IN IF i = 0 THEN <<s>>
     ELSE <<SubSeq(s, 1, i - 1)>> \o split(SubSeq(s, i + Len(sep), Len(s)), sep)

RECURSIVE trimStart(_)
trimStart(s) ==
  IF s # <<>> /\ CharAt(s, 1) \in WhiteSpace THEN trimStart(SubSeq(s, 2, Len(s))) ELSE s

RECURSIVE trimEnd(_)
trimEnd(s) ==
  IF s # <<>> /\ CharAt(s, Len(s)) \in WhiteSpace THEN trimEnd(SubSeq(s, 1, Len(s) - 1)) ELSE s

trim(s) == trimEnd(trimStart(s))

-----------------------------------------------------------------------------
(* String.prototype.toLowerCase: the Unicode default lower-case conversion *)
(* (UnicodeData and SpecialCasing, Unicode 17), code point by code point.  *)

IsHighSurrogate(u) == 55296 <= u /\ u <= 56319
IsLowSurrogate(u) == 56320 <= u /\ u <= 57343

\* The code points of a string; a surrogate without its partner stands for itself.
RECURSIVE CodePoints(_)
CodePoints(s) ==
  IF s = <<>> THEN <<>>
  ELSE IF Len(s) >= 2 /\ IsHighSurrogate(s[1]) /\ IsLowSurrogate(s[2])
  THEN <<65536 + (s[1] - 55296) * 1024 + (s[2] - 56320)>> \o CodePoints(SubSeq(s, 3, Len(s)))
  ELSE <<s[1]>> \o CodePoints(SubSeq(s, 2, Len(s)))

\* The code units of a code point.
CodeUnits(c) ==
  IF c < 65536 THEN <<c>>
  ELSE <<55296 + ((c - 65536) \div 1024), 56320 + ((c - 65536) % 1024)>>

\* The simple lower-case mappings outside ASCII: <<lo, hi, step, to>> maps
\* lo, lo + step, ..., hi to to, to + step, ...
LowerRanges ==
  {
    <<192, 214, 1, 224>>, <<216, 222, 1, 248>>, <<256, 302, 2, 257>>, <<306, 310, 2, 307>>,
    <<313, 327, 2, 314>>, <<330, 374, 2, 331>>, <<376, 376, 1, 255>>, <<377, 381, 2, 378>>,
    <<385, 385, 1, 595>>, <<386, 388, 2, 387>>, <<390, 390, 1, 596>>, <<391, 391, 1, 392>>,
    <<393, 394, 1, 598>>, <<395, 395, 1, 396>>, <<398, 398, 1, 477>>, <<399, 399, 1, 601>>,
    <<400, 400, 1, 603>>, <<401, 401, 1, 402>>, <<403, 403, 1, 608>>, <<404, 404, 1, 611>>,
    <<406, 406, 1, 617>>, <<407, 407, 1, 616>>, <<408, 408, 1, 409>>, <<412, 412, 1, 623>>,
    <<413, 413, 1, 626>>, <<415, 415, 1, 629>>, <<416, 420, 2, 417>>, <<422, 422, 1, 640>>,
    <<423, 423, 1, 424>>, <<425, 425, 1, 643>>, <<428, 428, 1, 429>>, <<430, 430, 1, 648>>,
    <<431, 431, 1, 432>>, <<433, 434, 1, 650>>, <<435, 437, 2, 436>>, <<439, 439, 1, 658>>,
    <<440, 440, 1, 441>>, <<444, 444, 1, 445>>, <<452, 452, 1, 454>>, <<453, 453, 1, 454>>,
    <<455, 455, 1, 457>>, <<456, 456, 1, 457>>, <<458, 458, 1, 460>>, <<459, 475, 2, 460>>,
    <<478, 494, 2, 479>>, <<497, 497, 1, 499>>, <<498, 500, 2, 499>>, <<502, 502, 1, 405>>,
    <<503, 503, 1, 447>>, <<504, 542, 2, 505>>, <<544, 544, 1, 414>>, <<546, 562, 2, 547>>,
    <<570, 570, 1, 11365>>, <<571, 571, 1, 572>>, <<573, 573, 1, 410>>, <<574, 574, 1, 11366>>,
    <<577, 577, 1, 578>>, <<579, 579, 1, 384>>, <<580, 580, 1, 649>>, <<581, 581, 1, 652>>,
    <<582, 590, 2, 583>>, <<880, 882, 2, 881>>, <<886, 886, 1, 887>>, <<895, 895, 1, 1011>>,
    <<902, 902, 1, 940>>, <<904, 906, 1, 941>>, <<908, 908, 1, 972>>, <<910, 911, 1, 973>>,
    <<913, 929, 1, 945>>, <<932, 939, 1, 964>>, <<975, 975, 1, 983>>, <<984, 1006, 2, 985>>,
    <<1012, 1012, 1, 952>>, <<1015, 1015, 1, 1016>>, <<1017, 1017, 1, 1010>>, <<1018, 1018, 1, 1019>>,
    <<1021, 1023, 1, 891>>, <<1024, 1039, 1, 1104>>, <<1040, 1071, 1, 1072>>, <<1120, 1152, 2, 1121>>,
    <<1162, 1214, 2, 1163>>, <<1216, 1216, 1, 1231>>, <<1217, 1229, 2, 1218>>, <<1232, 1326, 2, 1233>>,
    <<1329, 1366, 1, 1377>>, <<4256, 4293, 1, 11520>>, <<4295, 4295, 1, 11559>>, <<4301, 4301, 1, 11565>>,
    <<5024, 5103, 1, 43888>>, <<5104, 5109, 1, 5112>>, <<7305, 7305, 1, 7306>>, <<7312, 7354, 1, 4304>>,
    <<7357, 7359, 1, 4349>>, <<7680, 7828, 2, 7681>>, <<7838, 7838, 1, 223>>, <<7840, 7934, 2, 7841>>,
    <<7944, 7951, 1, 7936>>, <<7960, 7965, 1, 7952>>, <<7976, 7983, 1, 7968>>, <<7992, 7999, 1, 7984>>,
    <<8008, 8013, 1, 8000>>, <<8025, 8031, 2, 8017>>, <<8040, 8047, 1, 8032>>, <<8072, 8079, 1, 8064>>,
    <<8088, 8095, 1, 8080>>, <<8104, 8111, 1, 8096>>, <<8120, 8121, 1, 8112>>, <<8122, 8123, 1, 8048>>,
    <<8124, 8124, 1, 8115>>, <<8136, 8139, 1, 8050>>, <<8140, 8140, 1, 8131>>, <<8152, 8153, 1, 8144>>,
    <<8154, 8155, 1, 8054>>, <<8168, 8169, 1, 8160>>, <<8170, 8171, 1, 8058>>, <<8172, 8172, 1, 8165>>,
    <<8184, 8185, 1, 8056>>, <<8186, 8187, 1, 8060>>, <<8188, 8188, 1, 8179>>, <<8486, 8486, 1, 969>>,
    <<8490, 8490, 1, 107>>, <<8491, 8491, 1, 229>>, <<8498, 8498, 1, 8526>>, <<8544, 8559, 1, 8560>>,
    <<8579, 8579, 1, 8580>>, <<9398, 9423, 1, 9424>>, <<11264, 11311, 1, 11312>>, <<11360, 11360, 1, 11361>>,
    <<11362, 11362, 1, 619>>, <<11363, 11363, 1, 7549>>, <<11364, 11364, 1, 637>>, <<11367, 11371, 2, 11368>>,
    <<11373, 11373, 1, 593>>, <<11374, 11374, 1, 625>>, <<11375, 11375, 1, 592>>, <<11376, 11376, 1, 594>>,
    <<11378, 11378, 1, 11379>>, <<11381, 11381, 1, 11382>>, <<11390, 11391, 1, 575>>, <<11392, 11490, 2, 11393>>,
    <<11499, 11501, 2, 11500>>, <<11506, 11506, 1, 11507>>, <<42560, 42604, 2, 42561>>, <<42624, 42650, 2, 42625>>,
    <<42786, 42798, 2, 42787>>, <<42802, 42862, 2, 42803>>, <<42873, 42875, 2, 42874>>, <<42877, 42877, 1, 7545>>,
    <<42878, 42886, 2, 42879>>, <<42891, 42891, 1, 42892>>, <<42893, 42893, 1, 613>>, <<42896, 42898, 2, 42897>>,
    <<42902, 42920, 2, 42903>>, <<42922, 42922, 1, 614>>, <<42923, 42923, 1, 604>>, <<42924, 42924, 1, 609>>,
    <<42925, 42925, 1, 620>>, <<42926, 42926, 1, 618>>, <<42928, 42928, 1, 670>>, <<42929, 42929, 1, 647>>,
    <<42930, 42930, 1, 669>>, <<42931, 42931, 1, 43859>>, <<42932, 42946, 2, 42933>>, <<42948, 42948, 1, 42900>>,
    <<42949, 42949, 1, 642>>, <<42950, 42950, 1, 7566>>, <<42951, 42953, 2, 42952>>, <<42955, 42955, 1, 612>>,
    <<42956, 42970, 2, 42957>>, <<42972, 42972, 1, 411>>, <<42997, 42997, 1, 42998>>, <<65313, 65338, 1, 65345>>,
    <<66560, 66599, 1, 66600>>, <<66736, 66771, 1, 66776>>, <<66928, 66964, 2, 66967>>, <<66929, 66937, 2, 66968>>,
    <<66941, 66953, 2, 66980>>, <<66957, 66961, 2, 66996>>, <<66965, 66965, 1, 67004>>, <<68736, 68786, 1, 68800>>,
    <<68944, 68965, 1, 68976>>, <<71840, 71871, 1, 71872>>, <<93760, 93791, 1, 93792>>, <<93856, 93880, 1, 93883>>,
    <<125184, 125217, 1, 125218>>
  }

\* The code points with the property Cased, as ranges <<lo, hi>>.
CasedRanges ==
  {
    <<65, 90>>, <<97, 122>>, <<170, 170>>, <<181, 181>>, <<186, 186>>, <<192, 214>>,
    <<216, 246>>, <<248, 442>>, <<444, 447>>, <<452, 659>>, <<662, 696>>, <<704, 705>>,
    <<736, 740>>, <<837, 837>>, <<880, 883>>, <<886, 887>>, <<890, 893>>, <<895, 895>>,
    <<902, 902>>, <<904, 906>>, <<908, 908>>, <<910, 929>>, <<931, 1013>>, <<1015, 1153>>,
    <<1162, 1327>>, <<1329, 1366>>, <<1376, 1416>>, <<4256, 4293>>, <<4295, 4295>>, <<4301, 4301>>,
    <<4304, 4346>>, <<4348, 4351>>, <<5024, 5109>>, <<5112, 5117>>, <<7296, 7306>>, <<7312, 7354>>,
    <<7357, 7359>>, <<7424, 7615>>, <<7680, 7957>>, <<7960, 7965>>, <<7968, 8005>>, <<8008, 8013>>,
    <<8016, 8023>>, <<8025, 8025>>, <<8027, 8027>>, <<8029, 8029>>, <<8031, 8061>>, <<8064, 8116>>,
    <<8118, 8124>>, <<8126, 8126>>, <<8130, 8132>>, <<8134, 8140>>, <<8144, 8147>>, <<8150, 8155>>,
    <<8160, 8172>>, <<8178, 8180>>, <<8182, 8188>>, <<8305, 8305>>, <<8319, 8319>>, <<8336, 8348>>,
    <<8450, 8450>>, <<8455, 8455>>, <<8458, 8467>>, <<8469, 8469>>, <<8473, 8477>>, <<8484, 8484>>,
    <<8486, 8486>>, <<8488, 8488>>, <<8490, 8493>>, <<8495, 8500>>, <<8505, 8505>>, <<8508, 8511>>,
    <<8517, 8521>>, <<8526, 8526>>, <<8544, 8575>>, <<8579, 8580>>, <<9398, 9449>>, <<11264, 11492>>,
    <<11499, 11502>>, <<11506, 11507>>, <<11520, 11557>>, <<11559, 11559>>, <<11565, 11565>>, <<42560, 42605>>,
    <<42624, 42653>>, <<42786, 42887>>, <<42891, 42894>>, <<42896, 42972>>, <<42993, 42998>>, <<43000, 43002>>,
    <<43824, 43866>>, <<43868, 43881>>, <<43888, 43967>>, <<64256, 64262>>, <<64275, 64279>>, <<65313, 65338>>,
    <<65345, 65370>>, <<66560, 66639>>, <<66736, 66771>>, <<66776, 66811>>, <<66928, 66938>>, <<66940, 66954>>,
    <<66956, 66962>>, <<66964, 66965>>, <<66967, 66977>>, <<66979, 66993>>, <<66995, 67001>>, <<67003, 67004>>,
    <<67456, 67456>>, <<67459, 67461>>, <<67463, 67504>>, <<67506, 67514>>, <<68736, 68786>>, <<68800, 68850>>,
    <<68944, 68965>>, <<68976, 68997>>, <<71840, 71903>>, <<93760, 93823>>, <<93856, 93880>>, <<93883, 93907>>,
    <<119808, 119892>>, <<119894, 119964>>, <<119966, 119967>>, <<119970, 119970>>, <<119973, 119974>>, <<119977, 119980>>,
    <<119982, 119993>>, <<119995, 119995>>, <<119997, 120003>>, <<120005, 120069>>, <<120071, 120074>>, <<120077, 120084>>,
    <<120086, 120092>>, <<120094, 120121>>, <<120123, 120126>>, <<120128, 120132>>, <<120134, 120134>>, <<120138, 120144>>,
    <<120146, 120485>>, <<120488, 120512>>, <<120514, 120538>>, <<120540, 120570>>, <<120572, 120596>>, <<120598, 120628>>,
    <<120630, 120654>>, <<120656, 120686>>, <<120688, 120712>>, <<120714, 120744>>, <<120746, 120770>>, <<120772, 120779>>,
    <<122624, 122633>>, <<122635, 122654>>, <<122661, 122666>>, <<122928, 122989>>, <<125184, 125251>>, <<127280, 127305>>,
    <<127312, 127337>>, <<127344, 127369>>
  }

\* The code points with the property Case_Ignorable, as ranges <<lo, hi>>.
CaseIgnorableRanges ==
  {
    <<39, 39>>, <<46, 46>>, <<58, 58>>, <<94, 94>>, <<96, 96>>, <<168, 168>>,
    <<173, 173>>, <<175, 175>>, <<180, 180>>, <<183, 184>>, <<688, 879>>, <<884, 885>>,
    <<890, 890>>, <<900, 901>>, <<903, 903>>, <<1155, 1161>>, <<1369, 1369>>, <<1375, 1375>>,
    <<1425, 1469>>, <<1471, 1471>>, <<1473, 1474>>, <<1476, 1477>>, <<1479, 1479>>, <<1524, 1524>>,
    <<1536, 1541>>, <<1552, 1562>>, <<1564, 1564>>, <<1600, 1600>>, <<1611, 1631>>, <<1648, 1648>>,
    <<1750, 1757>>, <<1759, 1768>>, <<1770, 1773>>, <<1807, 1807>>, <<1809, 1809>>, <<1840, 1866>>,
    <<1958, 1968>>, <<2027, 2037>>, <<2042, 2042>>, <<2045, 2045>>, <<2070, 2093>>, <<2137, 2139>>,
    <<2184, 2184>>, <<2192, 2193>>, <<2199, 2207>>, <<2249, 2306>>, <<2362, 2362>>, <<2364, 2364>>,
    <<2369, 2376>>, <<2381, 2381>>, <<2385, 2391>>, <<2402, 2403>>, <<2417, 2417>>, <<2433, 2433>>,
    <<2492, 2492>>, <<2497, 2500>>, <<2509, 2509>>, <<2530, 2531>>, <<2558, 2558>>, <<2561, 2562>>,
    <<2620, 2620>>, <<2625, 2626>>, <<2631, 2632>>, <<2635, 2637>>, <<2641, 2641>>, <<2672, 2673>>,
    <<2677, 2677>>, <<2689, 2690>>, <<2748, 2748>>, <<2753, 2757>>, <<2759, 2760>>, <<2765, 2765>>,
    <<2786, 2787>>, <<2810, 2815>>, <<2817, 2817>>, <<2876, 2876>>, <<2879, 2879>>, <<2881, 2884>>,
    <<2893, 2893>>, <<2901, 2902>>, <<2914, 2915>>, <<2946, 2946>>, <<3008, 3008>>, <<3021, 3021>>,
    <<3072, 3072>>, <<3076, 3076>>, <<3132, 3132>>, <<3134, 3136>>, <<3142, 3144>>, <<3146, 3149>>,
    <<3157, 3158>>, <<3170, 3171>>, <<3201, 3201>>, <<3260, 3260>>, <<3263, 3263>>, <<3270, 3270>>,
    <<3276, 3277>>, <<3298, 3299>>, <<3328, 3329>>, <<3387, 3388>>, <<3393, 3396>>, <<3405, 3405>>,
    <<3426, 3427>>, <<3457, 3457>>, <<3530, 3530>>, <<3538, 3540>>, <<3542, 3542>>, <<3633, 3633>>,
    <<3636, 3642>>, <<3654, 3662>>, <<3761, 3761>>, <<3764, 3772>>, <<3782, 3782>>, <<3784, 3790>>,
    <<3864, 3865>>, <<3893, 3893>>, <<3895, 3895>>, <<3897, 3897>>, <<3953, 3966>>, <<3968, 3972>>,
    <<3974, 3975>>, <<3981, 3991>>, <<3993, 4028>>, <<4038, 4038>>, <<4141, 4144>>, <<4146, 4151>>,
    <<4153, 4154>>, <<4157, 4158>>, <<4184, 4185>>, <<4190, 4192>>, <<4209, 4212>>, <<4226, 4226>>,
    <<4229, 4230>>, <<4237, 4237>>, <<4253, 4253>>, <<4348, 4348>>, <<4957, 4959>>, <<5906, 5908>>,
    <<5938, 5939>>, <<5970, 5971>>, <<6002, 6003>>, <<6068, 6069>>, <<6071, 6077>>, <<6086, 6086>>,
    <<6089, 6099>>, <<6103, 6103>>, <<6109, 6109>>, <<6155, 6159>>, <<6211, 6211>>, <<6277, 6278>>,
    <<6313, 6313>>, <<6432, 6434>>, <<6439, 6440>>, <<6450, 6450>>, <<6457, 6459>>, <<6679, 6680>>,
    <<6683, 6683>>, <<6742, 6742>>, <<6744, 6750>>, <<6752, 6752>>, <<6754, 6754>>, <<6757, 6764>>,
    <<6771, 6780>>, <<6783, 6783>>, <<6823, 6823>>, <<6832, 6877>>, <<6880, 6891>>, <<6912, 6915>>,
    <<6964, 6964>>, <<6966, 6970>>, <<6972, 6972>>, <<6978, 6978>>, <<7019, 7027>>, <<7040, 7041>>,
    <<7074, 7077>>, <<7080, 7081>>, <<7083, 7085>>, <<7142, 7142>>, <<7144, 7145>>, <<7149, 7149>>,
    <<7151, 7153>>, <<7212, 7219>>, <<7222, 7223>>, <<7288, 7293>>, <<7376, 7378>>, <<7380, 7392>>,
    <<7394, 7400>>, <<7405, 7405>>, <<7412, 7412>>, <<7416, 7417>>, <<7468, 7530>>, <<7544, 7544>>,
    <<7579, 7679>>, <<8125, 8125>>, <<8127, 8129>>, <<8141, 8143>>, <<8157, 8159>>, <<8173, 8175>>,
    <<8189, 8190>>, <<8203, 8207>>, <<8216, 8217>>, <<8228, 8228>>, <<8231, 8231>>, <<8234, 8238>>,
    <<8288, 8292>>, <<8294, 8303>>, <<8305, 8305>>, <<8319, 8319>>, <<8336, 8348>>, <<8400, 8432>>,
    <<11388, 11389>>, <<11503, 11505>>, <<11631, 11631>>, <<11647, 11647>>, <<11744, 11775>>, <<11823, 11823>>,
    <<12293, 12293>>, <<12330, 12333>>, <<12337, 12341>>, <<12347, 12347>>, <<12441, 12446>>, <<12540, 12542>>,
    <<40981, 40981>>, <<42232, 42237>>, <<42508, 42508>>, <<42607, 42610>>, <<42612, 42621>>, <<42623, 42623>>,
    <<42652, 42655>>, <<42736, 42737>>, <<42752, 42785>>, <<42864, 42864>>, <<42888, 42890>>, <<42993, 42996>>,
    <<43000, 43001>>, <<43010, 43010>>, <<43014, 43014>>, <<43019, 43019>>, <<43045, 43046>>, <<43052, 43052>>,
    <<43204, 43205>>, <<43232, 43249>>, <<43263, 43263>>, <<43302, 43309>>, <<43335, 43345>>, <<43392, 43394>>,
    <<43443, 43443>>, <<43446, 43449>>, <<43452, 43453>>, <<43471, 43471>>, <<43493, 43494>>, <<43561, 43566>>,
    <<43569, 43570>>, <<43573, 43574>>, <<43587, 43587>>, <<43596, 43596>>, <<43632, 43632>>, <<43644, 43644>>,
    <<43696, 43696>>, <<43698, 43700>>, <<43703, 43704>>, <<43710, 43711>>, <<43713, 43713>>, <<43741, 43741>>,
    <<43756, 43757>>, <<43763, 43764>>, <<43766, 43766>>, <<43867, 43871>>, <<43881, 43883>>, <<44005, 44005>>,
    <<44008, 44008>>, <<44013, 44013>>, <<64286, 64286>>, <<64434, 64450>>, <<65024, 65039>>, <<65043, 65043>>,
    <<65056, 65071>>, <<65106, 65106>>, <<65109, 65109>>, <<65279, 65279>>, <<65287, 65287>>, <<65294, 65294>>,
    <<65306, 65306>>, <<65342, 65342>>, <<65344, 65344>>, <<65392, 65392>>, <<65438, 65439>>, <<65507, 65507>>,
    <<65529, 65531>>, <<66045, 66045>>, <<66272, 66272>>, <<66422, 66426>>, <<67456, 67461>>, <<67463, 67504>>,
    <<67506, 67514>>, <<68097, 68099>>, <<68101, 68102>>, <<68108, 68111>>, <<68152, 68154>>, <<68159, 68159>>,
    <<68325, 68326>>, <<68900, 68903>>, <<68942, 68942>>, <<68969, 68973>>, <<68975, 68975>>, <<69291, 69292>>,
    <<69317, 69317>>, <<69370, 69375>>, <<69446, 69456>>, <<69506, 69509>>, <<69633, 69633>>, <<69688, 69702>>,
    <<69744, 69744>>, <<69747, 69748>>, <<69759, 69761>>, <<69811, 69814>>, <<69817, 69818>>, <<69821, 69821>>,
    <<69826, 69826>>, <<69837, 69837>>, <<69888, 69890>>, <<69927, 69931>>, <<69933, 69940>>, <<70003, 70003>>,
    <<70016, 70017>>, <<70070, 70078>>, <<70089, 70092>>, <<70095, 70095>>, <<70191, 70193>>, <<70196, 70196>>,
    <<70198, 70199>>, <<70206, 70206>>, <<70209, 70209>>, <<70367, 70367>>, <<70371, 70378>>, <<70400, 70401>>,
    <<70459, 70460>>, <<70464, 70464>>, <<70502, 70508>>, <<70512, 70516>>, <<70587, 70592>>, <<70606, 70606>>,
    <<70608, 70608>>, <<70610, 70610>>, <<70625, 70626>>, <<70712, 70719>>, <<70722, 70724>>, <<70726, 70726>>,
    <<70750, 70750>>, <<70835, 70840>>, <<70842, 70842>>, <<70847, 70848>>, <<70850, 70851>>, <<71090, 71093>>,
    <<71100, 71101>>, <<71103, 71104>>, <<71132, 71133>>, <<71219, 71226>>, <<71229, 71229>>, <<71231, 71232>>,
    <<71339, 71339>>, <<71341, 71341>>, <<71344, 71349>>, <<71351, 71351>>, <<71453, 71453>>, <<71455, 71455>>,
    <<71458, 71461>>, <<71463, 71467>>, <<71727, 71735>>, <<71737, 71738>>, <<71995, 71996>>, <<71998, 71998>>,
    <<72003, 72003>>, <<72148, 72151>>, <<72154, 72155>>, <<72160, 72160>>, <<72193, 72202>>, <<72243, 72248>>,
    <<72251, 72254>>, <<72263, 72263>>, <<72273, 72278>>, <<72281, 72283>>, <<72330, 72342>>, <<72344, 72345>>,
    <<72544, 72544>>, <<72546, 72548>>, <<72550, 72550>>, <<72752, 72758>>, <<72760, 72765>>, <<72767, 72767>>,
    <<72850, 72871>>, <<72874, 72880>>, <<72882, 72883>>, <<72885, 72886>>, <<73009, 73014>>, <<73018, 73018>>,
    <<73020, 73021>>, <<73023, 73029>>, <<73031, 73031>>, <<73104, 73105>>, <<73109, 73109>>, <<73111, 73111>>,
    <<73177, 73177>>, <<73459, 73460>>, <<73472, 73473>>, <<73526, 73530>>, <<73536, 73536>>, <<73538, 73538>>,
    <<73562, 73562>>, <<78896, 78912>>, <<78919, 78933>>, <<90398, 90409>>, <<90413, 90415>>, <<92912, 92916>>,
    <<92976, 92982>>, <<92992, 92995>>, <<93504, 93506>>, <<93547, 93548>>, <<94031, 94031>>, <<94095, 94111>>,
    <<94176, 94177>>, <<94179, 94180>>, <<94194, 94195>>, <<110576, 110579>>, <<110581, 110587>>, <<110589, 110590>>,
    <<113821, 113822>>, <<113824, 113827>>, <<118528, 118573>>, <<118576, 118598>>, <<119143, 119145>>, <<119155, 119170>>,
    <<119173, 119179>>, <<119210, 119213>>, <<119362, 119364>>, <<121344, 121398>>, <<121403, 121452>>, <<121461, 121461>>,
    <<121476, 121476>>, <<121499, 121503>>, <<121505, 121519>>, <<122880, 122886>>, <<122888, 122904>>, <<122907, 122913>>,
    <<122915, 122916>>, <<122918, 122922>>, <<122928, 122989>>, <<123023, 123023>>, <<123184, 123197>>, <<123566, 123566>>,
    <<123628, 123631>>, <<124139, 124143>>, <<124398, 124399>>, <<124643, 124643>>, <<124646, 124646>>, <<124654, 124655>>,
    <<124661, 124661>>, <<124671, 124671>>, <<125136, 125142>>, <<125252, 125259>>, <<127995, 127999>>, <<917505, 917505>>,
    <<917536, 917631>>, <<917760, 917999>>
  }

Cased(c) == \E r \in CasedRanges : r[1] <= c /\ c <= r[2]

CaseIgnorable(c) == \E r \in CaseIgnorableRanges : r[1] <= c /\ c <= r[2]

\* The lower case of one code point, out of context.
lowerChar(c) ==
  IF c < 128 THEN (IF 65 <= c /\ c <= 90 THEN c + 32 ELSE c)
  ELSE LET hit == {r \in LowerRanges : r[1] <= c /\ c <= r[2] /\ (c - r[1]) % r[3] = 0}
       IN IF hit = {} THEN c
          ELSE LET r == CHOOSE x \in hit : TRUE IN r[4] + (c - r[1])

\* SpecialCasing, Final_Sigma: the sigma at i follows a cased letter and does
\* not precede one, case-ignorable code points skipped on both sides.
FinalSigma(cps, i) ==
  LET before == {j \in 1..(i - 1) : ~CaseIgnorable(cps[j])}
      after  == {j \in (i + 1)..Len(cps) : ~CaseIgnorable(cps[j])}
  IN /\ before # {}
     /\ Cased(cps[CHOOSE j \in before : \A k \in before : k <= j])
     /\ \/ after = {}
        \/ ~Cased(cps[CHOOSE j \in after : \A k \in after : j <= k])

\* The lower case of the code point at i: capital sigma by its context,
\* capital I with dot above as i and a combining dot, the others by the table.
lowerAt(cps, i) ==
  IF cps[i] = 931 THEN (IF FinalSigma(cps, i) THEN <<962>> ELSE <<963>>)
  ELSE IF cps[i] = 304 THEN <<105, 775>>
  ELSE CodeUnits(lowerChar(cps[i]))

RECURSIVE lowerFrom(_, _)
lowerFrom(cps, i) ==
  IF i > Len(cps) THEN <<>> ELSE lowerAt(cps, i) \o lowerFrom(cps, i + 1)

toLowerCase(s) == lowerFrom(CodePoints(s), 1)

-----------------------------------------------------------------------------
(* normalizeIp, net.js:49-56 *)

MappedPrefix == U("::ffff:")
Comma == U(",")
LoopbackV6 == U("::1")
LoopbackV4 == U("127.0.0.1")

\* Variant of commaStep: the first entry is taken without trim().
commaStepNoTrim(s) == IF includes(s, Comma) THEN split(s, Comma)[1] ELSE s

\* net.js:52   if (ip.includes(",")) ip = ip.split(",")[0].trim();
commaStep(s) == IF includes(s, Comma) THEN trim(split(s, Comma)[1]) ELSE s

\* net.js:53   if (ip.startsWith("::ffff:")) ip = ip.split("::ffff:")[1];
mappedStep(s) == IF startsWith(s, MappedPrefix) THEN split(s, MappedPrefix)[2] ELSE s

\* net.js:54-55   if (ip === "::1" || ip === "127.0.0.1") return null; return ip;
loopbackStep(s) == IF s = LoopbackV6 \/ s = LoopbackV4 THEN Null ELSE Str(s)

\* Variant of normalizeIp: the loopback test runs on the raw argument, before
\* the comma and prefix steps.
normalizeIpLoopbackFirst(s) ==
  IF s = <<>> THEN Null
  ELSE IF s = LoopbackV6 \/ s = LoopbackV4 THEN Null
  ELSE Str(mappedStep(commaStep(s)))

\* net.js:49-56, the whole function (its argument is always a string, net.js:68)
normalizeIp(s) ==
  IF s = <<>> THEN Null ELSE loopbackStep(mappedStep(commaStep(s)))

-----------------------------------------------------------------------------
(* isVPN, net.js:31-46 *)

\* An AS record returned by the reader.  The organization field may be missing.
Record(o) == [t |-> "record", autonomous_system_organization |-> o]

\* net.js:36-43
vpnKeywords ==
  << U("vpn"), U("proxy"), U("hosting"), U("datacenter"), U("cloud"),
     U("expressvpn"), U("nordvpn"), U("surfshark"), U("cyberghost"),
     U("private internet access"), U("ipvanish"), U("vyprvpn"),
     U("windscribe"), U("tunnelbear"), U("protonvpn"), U("mullvad"),
     U("amazon"), U("aws"), U("digitalocean"), U("ovh"), U("hetzner"),
     U("google cloud"), U("microsoft"), U("azure"), U("linode") >>

\* Variant of orgOf: the organization is not lower-cased.
orgOfNoLowerCase(asnInfo) ==
  IF Truthy(asnInfo.autonomous_system_organization)
  THEN asnInfo.autonomous_system_organization.v
  ELSE <<>>

\* net.js:34   (asnInfo.autonomous_system_organization || "").toLowerCase()
orgOf(asnInfo) ==
  toLowerCase(IF Truthy(asnInfo.autonomous_system_organization)
              THEN asnInfo.autonomous_system_organization.v
              ELSE <<>>)

\* net.js:45   keywords.some(keyword => org.includes(keyword)), in array order
RECURSIVE some(_, _)
some(keywords, o) ==
  IF keywords = <<>> THEN FALSE
  ELSE IF includes(o, Head(keywords)) THEN TRUE
  ELSE some(Tail(keywords), o)

\* net.js:31-46 with the keyword array as a parameter
isVPNWith(keywords, asnInfo) ==
  IF asnInfo = Null THEN FALSE ELSE some(keywords, orgOf(asnInfo))

\* net.js:31-46
isVPN(asnInfo) == isVPNWith(vpnKeywords, asnInfo)

-----------------------------------------------------------------------------
(* The reader of the maxmind package, net.js:77 *)

Throw == [t |-> "throw"]

\* lookup.get(key).  On the null reference the member access throws a
\* TypeError; on a reader the result is what the dataset holds for the key:
\* a record, null, or an exception.
lookupGet(lk, d, key) ==
  IF lk = "null" THEN Throw
  ELSE IF key \in DOMAIN d.entries THEN d.entries[key]
  ELSE d.other

-----------------------------------------------------------------------------
(* GET /scan, net.js:59-89 *)

\* a || b
OrElse(a, b) == IF Truthy(a) THEN a ELSE b

\* net.js:64   req.query.ip ? String(req.query.ip).trim() : null
ipParam(q) == IF Truthy(q) THEN Str(trim(q.v)) ELSE Null

\* net.js:65   req.headers["x-forwarded-for"] || null
remoteHeader(h) == OrElse(h, Null)

\* net.js:66   req.socket?.remoteAddress || null
socketAddr(s) == OrElse(s, Null)

\* Variant of ipToUse: the socket address is preferred to the header.
ipToUseSocketFirst(q, h, s) ==
  OrElse(ipParam(q),
         normalizeIp(OrElse(OrElse(socketAddr(s), remoteHeader(h)), Str(<<>>)).v))

\* net.js:68   ipParam || normalizeIp(String(remoteHeader || socketAddr || ""))
ipToUse(q, h, s) ==
  OrElse(ipParam(q),
         normalizeIp(OrElse(OrElse(remoteHeader(h), socketAddr(s)), Str(<<>>)).v))

\* Variant of tryLookup: no try/catch, an exception of the reader leaves the handler.
tryLookupNoCatch(lk, d, key) ==
  LET got == lookupGet(lk, d, key)
  IN [asnInfo |-> IF got = Throw THEN Null ELSE got,
      caught  |-> FALSE,
      escaped |-> got = Throw]

\* net.js:75-80   try { asnInfo = lookup.get(ipToUse) } catch (e) { asnInfo = null }
tryLookup(lk, d, key) ==
  LET got == lookupGet(lk, d, key)
  IN [asnInfo |-> IF got = Throw THEN Null ELSE got,
      caught  |-> got = Throw,
      escaped |-> FALSE]

\* net.js:60-62   if (!lookup) return res.json(DatabaseError)
notReady(lk) == lk = "null"

\* net.js:84-88   the body sent for the value of isVPNDetected
verdictOf(isVPNDetected) == IF isVPNDetected THEN "VpnUser" ELSE "RealUser"

\* What one request does: the body sent, whether the reference was set when
\* the request ran, the value of ipToUse (Null when the handler returns before
\* computing it), the key handed to lookup.get and the reference it was
\* invoked on ("none" and Null when the reader is not invoked), and whether
\* an exception of the reader was caught.
Response(result, lk, use, key, on, caught) ==
  [result |-> result, ready |-> lk # "null", ipToUse |-> use, key |-> key,
   on |-> on, caught |-> caught]

\* Variant of scan: the Localhost test runs before the test of the reference.
scanLocalhostFirst(lk, d, q, h, s) ==
  LET use == ipToUse(q, h, s)
  IN IF ~Truthy(use) THEN Response("Localhost", lk, use, Null, "none", FALSE)
     ELSE IF notReady(lk) THEN Response("DatabaseError", lk, Null, Null, "none", FALSE)
     ELSE LET t == tryLookup(lk, d, use.v)
          IN Response(verdictOf(isVPN(t.asnInfo)), lk, use, use, lk, t.caught)

\* net.js:59-89
scan(lk, d, q, h, s) ==
  IF notReady(lk) THEN Response("DatabaseError", lk, Null, Null, "none", FALSE)
  ELSE LET use == ipToUse(q, h, s)
       IN IF ~Truthy(use) THEN Response("Localhost", lk, use, Null, "none", FALSE)
          ELSE LET t == tryLookup(lk, d, use.v)
               IN IF t.escaped
                  THEN Response("InternalServerError", lk, use, use, lk, FALSE)
                  ELSE Response(verdictOf(isVPN(t.asnInfo)), lk, use, use, lk, t.caught)

-----------------------------------------------------------------------------
(* Inputs of the model *)

\* Values of the ip query parameter (Null: the parameter is absent).
QueryIps ==
  {Null, Str(<<>>), Str(<<32, 11, 160>>), Str(U("8.8.8.8")), Str(<<11>> \o U("8.8.8.8 ")),
   Str(U("127.0.0.1")),
   Str(U("::ffff:8.8.8.8")), Str(U("8.8.8.8,1.1.1.1"))}

\* Values of the x-forwarded-for header (Null: the header is absent).
ForwardedFors ==
  {Null, Str(<<>>), Str(U("::1")), Str(U("::ffff:127.0.0.1")), Str(U("127.0.0.1, 10.0.0.1")),
   Str(U(" 8.8.8.8 , 10.0.0.1")), Str(U(",10.0.0.1")), Str(U("10.0.0.1")),
   Str(<<11>> \o U("::1") \o <<160>> \o U(",10.0.0.1"))}

\* Values of req.socket.remoteAddress (Null: the socket has none).
RemoteAddresses == {Null, Str(U("::1")), Str(U("::ffff:8.8.8.8")), Str(U("192.0.2.7"))}

\* The requests that are compared with an earlier one.
RepeatQueryIps == {Null, Str(U("8.8.8.8")), Str(U("127.0.0.1"))}
RepeatForwardedFors == {Null, Str(U("127.0.0.1, 10.0.0.1")), Str(U(",10.0.0.1")), Str(U("10.0.0.1"))}
RepeatRemoteAddresses == {Str(U("::1")), Str(U("::ffff:8.8.8.8"))}

\* What the dataset may hold for an address: an exception of the reader, no
\* record, a record without organization, or a record with one.
Outcomes ==
  {Throw, Null, Record(Null), Record(Str(<<>>)), Record(Str(U("GOOGLE"))),
   Record(Str(U("Nord VPN S.A.")))}

\* The datasets: what the file holds for 8.8.8.8, and what the reader does with
\* every other key (it throws, or it finds no record).
Datasets ==
  {[entries |-> e, other |-> o] : e \in [{U("8.8.8.8")} -> Outcomes], o \in {Throw, Null}}

\* Largest number of fragments an argument of normalizeIp is built from.
MaxFrags == 4

IpFragments ==
  {U("::ffff:"), U("127.0.0.1"), U("::1"), U(","), U(" "), <<11>>, <<160>>, U("8.8.8.8")}

RECURSIVE Concats(_, _)
Concats(frags, n) ==
  IF n = 0 THEN {<<>>}
  ELSE LET shorter == Concats(frags, n - 1)
       IN shorter \cup {a \o f : a \in shorter, f \in frags}

RawIps == Concats(IpFragments, MaxFrags)

\* Largest number of fragments an organization name is built from.
MaxOrgFrags == 3

\* <<8490>> is the Kelvin sign, whose lower case is k; <<201>> is a capital E
\* with acute; <<304>> is a capital I with dot above; <<931>> is a capital sigma;
\* <<7305>> is the Cyrillic capital letter Tje.
OrgFragments ==
  {U("VPN"), U("vp"), U("n"), U("Amazon"), U(" "), U("AW"), U("s"), U("Google"),
   U("Cloud"), U("SURFSHAR"), U("HOST"), U("NG"), <<8490>>, <<201>>, <<304>>, <<931>>,
   <<7305>>}

AsnInfos ==
  {Null, Record(Null)} \cup {Record(Str(o)) : o \in Concats(OrgFragments, MaxOrgFrags)}

-----------------------------------------------------------------------------
(* The server: the database load and the requests *)

ServerInit ==
  /\ lookup = "null"              \* net.js:20
  /\ loadState = "pending"        \* net.js:21
  /\ running = TRUE
  /\ db \in Datasets
  /\ req = Null
  /\ res = Null
  /\ seen = Null

NormIdle == ipRaw = <<>> /\ ip = <<>> /\ npc = "idle" /\ ret = Null
VpnIdle == asn = Null /\ org = <<>> /\ vpc = "idle" /\ vret = FALSE /\ verdict = ""

Init == ServerInit /\ NormIdle /\ VpnIdle

\* net.js:22-25   .then((l) => { lookup = l; ... })
LoadResolve ==
  /\ running
  /\ loadState = "pending"
  /\ loadState' = "resolved"
  /\ lookup' = "reader"
  /\ UNCHANGED <<running, db, req, res, seen, normVars, vpnVars>>

\* Variant of LoadReject: no .catch(), the unhandled rejection ends the process.
LoadRejectUnhandled ==
  /\ running
  /\ loadState = "pending"
  /\ loadState' = "rejected"
  /\ running' = FALSE
  /\ UNCHANGED <<lookup, db, req, res, seen, normVars, vpnVars>>

\* net.js:26-28   .catch((err) => { console.error(...) }): the rejection is
\* handled, so the process keeps running, and lookup is left as it is.
LoadReject ==
  /\ running
  /\ loadState = "pending"
  /\ loadState' = "rejected"
  /\ UNCHANGED <<lookup, running, db, req, res, seen, normVars, vpnVars>>

\* Variant of Serve: the catch block drops the reader after an exception.
ServeResetOnThrow(q, h, s) ==
  /\ running
  /\ req' = [ip |-> q, xff |-> h, remoteAddress |-> s, during |-> loadState]
  /\ res' = scan(lookup, db, q, h, s)
  /\ lookup' = IF res'.caught THEN "null" ELSE lookup
  /\ UNCHANGED <<loadState, running, db, normVars, vpnVars>>

\* net.js:59-89   one GET /scan request with query parameter q, header h and
\* socket address s.  The handler has no await, so it runs to completion
\* between two events of the loop; it assigns no variable of the module.
Serve(q, h, s) ==
  /\ running
  /\ req' = [ip |-> q, xff |-> h, remoteAddress |-> s, during |-> loadState]
  /\ res' = scan(lookup, db, q, h, s)
  /\ UNCHANGED <<lookup, loadState, running, db, normVars, vpnVars>>

Scan ==
  /\ \E q \in QueryIps, h \in ForwardedFors, s \in RemoteAddresses : Serve(q, h, s)
  /\ UNCHANGED seen

Next == LoadResolve \/ LoadReject \/ Scan

Spec == Init /\ [][Next]_vars

\* The same server, keeping one earlier request and its response: when a
\* request arrives, the one served before it may be kept in seen.
ScanRemember ==
  /\ res # Null
  /\ \E q \in RepeatQueryIps, h \in RepeatForwardedFors, s \in RepeatRemoteAddresses :
       Serve(q, h, s)
  /\ seen' = [req |-> req, res |-> res]

ScanForget ==
  /\ \E q \in RepeatQueryIps, h \in RepeatForwardedFors, s \in RepeatRemoteAddresses :
       Serve(q, h, s)
  /\ UNCHANGED seen

NextRepeat == LoadResolve \/ LoadReject \/ ScanRemember \/ ScanForget

SpecRepeat == Init /\ [][NextRepeat]_vars

-----------------------------------------------------------------------------
(* normalizeIp, line by line, on every argument of RawIps *)

ServerIdle ==
  /\ lookup = "null" /\ loadState = "pending" /\ running = TRUE
  /\ db = [entries |-> [k \in {U("8.8.8.8")} |-> Null], other |-> Null]
  /\ req = Null /\ res = Null /\ seen = Null

InitNormalize == ServerIdle /\ VpnIdle /\ ipRaw \in RawIps /\ ip = <<>> /\ npc = "entry" /\ ret = Null

\* net.js:50-51   if (!ipRaw) return null;  let ip = ipRaw;
NormEntry ==
  /\ npc = "entry"
  /\ IF ipRaw = <<>> THEN npc' = "done" /\ ret' = Null /\ ip' = ip
     ELSE npc' = "comma" /\ ip' = ipRaw /\ ret' = ret
  /\ UNCHANGED <<ipRaw, serverVars, vpnVars>>

\* net.js:52
NormComma ==
  /\ npc = "comma"
  /\ ip' = commaStep(ip)
  /\ npc' = "mapped"
  /\ UNCHANGED <<ipRaw, ret, serverVars, vpnVars>>

\* net.js:53
NormMapped ==
  /\ npc = "mapped"
  /\ ip' = mappedStep(ip)
  /\ npc' = "loopback"
  /\ UNCHANGED <<ipRaw, ret, serverVars, vpnVars>>

\* net.js:54-55
NormLoopback ==
  /\ npc = "loopback"
  /\ ret' = loopbackStep(ip)
  /\ npc' = "done"
  /\ UNCHANGED <<ipRaw, ip, serverVars, vpnVars>>

NextNormalize == NormEntry \/ NormComma \/ NormMapped \/ NormLoopback

SpecNormalize == InitNormalize /\ [][NextNormalize]_vars

-----------------------------------------------------------------------------
(* isVPN, line by line, on every record of AsnInfos *)

InitClassify ==
  /\ ServerIdle /\ NormIdle
  /\ asn \in AsnInfos /\ org = <<>> /\ vpc = "entry" /\ vret = FALSE /\ verdict = ""

\* net.js:32   if (!asnInfo) return false;
VpnEntry ==
  /\ vpc = "entry"
  /\ IF asn = Null THEN vpc' = "return" /\ vret' = FALSE ELSE vpc' = "org" /\ vret' = vret
  /\ UNCHANGED <<asn, org, verdict, serverVars, normVars>>

\* net.js:34
VpnOrg ==
  /\ vpc = "org"
  /\ org' = orgOf(asn)
  /\ vpc' = "some"
  /\ UNCHANGED <<asn, vret, verdict, serverVars, normVars>>

\* net.js:45
VpnSome ==
  /\ vpc = "some"
  /\ vret' = some(vpnKeywords, org)
  /\ vpc' = "return"
  /\ UNCHANGED <<asn, org, verdict, serverVars, normVars>>

\* net.js:82-88
VpnVerdict ==
  /\ vpc = "return"
  /\ verdict' = verdictOf(vret)
  /\ vpc' = "done"
  /\ UNCHANGED <<asn, org, vret, serverVars, normVars>>

NextClassify == VpnEntry \/ VpnOrg \/ VpnSome \/ VpnVerdict

SpecClassify == InitClassify /\ [][NextClassify]_vars

-----------------------------------------------------------------------------
(* Properties *)

Loopbacks == {U("::1"), U("127.0.0.1")}

Present(x) == x # Null /\ x.v # <<>>

\* The position of the first comma of s (s holds one).
FirstComma(s) == CHOOSE i \in 1..Len(s) : s[i] = 44 /\ \A j \in 1..(i - 1) : s[j] # 44

\* The substring of s before its first comma, without the white space around it.
FirstEntry(s) ==
  LET c == FirstComma(s)
      solid == {i \in 1..(c - 1) : CharAt(s, i) \notin WhiteSpace}
  IN IF solid = {} THEN <<>>
     ELSE SubSeq(s, CHOOSE i \in solid : \A j \in solid : i <= j,
                    CHOOSE i \in solid : \A j \in solid : j <= i)

HasComma(s) == \E i \in 1..Len(s) : s[i] = 44

\* The value the comma step is to leave.
AfterComma(s) == IF HasComma(s) THEN FirstEntry(s) ELSE s

HasMappedPrefix(s) == Len(s) >= 7 /\ SubSeq(s, 1, 7) = <<58, 58, 102, 102, 102, 102, 58>>

\* The value the prefix step is to leave: all of s after the prefix.
AfterPrefix(s) == IF HasMappedPrefix(s) THEN SubSeq(s, 8, Len(s)) ELSE s

\* The string normalizeIp is called with for a request (net.js:68).
RawOf(r) ==
  IF Present(r.xff) THEN r.xff.v
  ELSE IF Present(r.remoteAddress) THEN r.remoteAddress.v
  ELSE <<>>

\* The ip query parameter counts: it is given and not blank.
HasIpParam(r) == r.ip # Null /\ trim(r.ip.v) # <<>>

\* What the dataset holds for a key.
DatasetOutcome(d, key) == IF key \in DOMAIN d.entries THEN d.entries[key] ELSE d.other

SameRequest(a, b) == a.ip = b.ip /\ a.xff = b.xff /\ a.remoteAddress = b.remoteAddress

\* Code unit c is character k of a keyword, case ignored: k itself, its ASCII
\* capital, or the Kelvin sign for k.  (No other code point has an ASCII
\* letter as its lower case, but capital I with dot above, whose lower case
\* is i followed by a combining dot; no keyword ends with i.)
SameLetter(c, k) ==
  \/ c = k
  \/ 97 <= k /\ k <= 122 /\ c + 32 = k
  \/ k = 107 /\ c = 8490

\* Keyword k occurs in o, case ignored.
ContainsIgnoringCase(o, k) ==
  \E i \in 1..(Len(o) + 1 - Len(k)) :
    \A j \in 1..Len(k) : SameLetter(o[i + j - 1], k[j])

KeywordSet == {vpnKeywords[i] : i \in DOMAIN vpnKeywords}

Reverse(seq) == [i \in 1..Len(seq) |-> seq[Len(seq) + 1 - i]]

\* C1: a request served while the load is pending or has failed answers
\* DatabaseError, whatever its ip parameter, header and socket address, and
\* does not invoke lookup.get.
C1_NotReadyDatabaseError ==
  (res # Null /\ req.during # "resolved") =>
    /\ res.result = "DatabaseError"
    /\ res.on = "none"
    /\ res.key = Null

C1_Witness ==
  /\ res # Null
  /\ req.during = "pending"
  /\ req.ip = Null /\ req.xff = Null /\ req.remoteAddress = Str(U("::1"))
  /\ res.result = "DatabaseError"

\* C2: after the load has failed the process keeps running, lookup stays
\* unset, the load is never started again, and every request answers
\* DatabaseError.
C2_FailurePermanent ==
  /\ [](loadState = "rejected" =>
          /\ running
          /\ lookup = "null"
          /\ (res # Null /\ req.during = "rejected") =>
               (res.result = "DatabaseError" /\ res.on = "none"))
  /\ [][loadState = "rejected" =>
          (loadState' = "rejected" /\ lookup' = "null" /\ running')]_vars

C2_Witness ==
  /\ loadState = "rejected"
  /\ res # Null
  /\ req.during = "rejected"
  /\ req.ip = Str(U("8.8.8.8"))
  /\ res.result = "DatabaseError"

\* C3: isVPN on a record answers VpnUser exactly when some keyword occurs in
\* the organization with case ignored, and the order of the keywords does not
\* matter.
C3_KeywordSubstring ==
  (vpc = "done" /\ asn # Null) =>
    LET o == IF Present(asn.autonomous_system_organization)
             THEN asn.autonomous_system_organization.v ELSE <<>>
        m == \E k \in KeywordSet : ContainsIgnoringCase(o, k)
    IN /\ vret = m
       /\ verdict = (IF m THEN "VpnUser" ELSE "RealUser")
       /\ isVPNWith(Reverse(vpnKeywords), asn) = vret

C3_Witness ==
  /\ vpc = "done"
  /\ asn = Record(Str(U("AWs")))
  /\ verdict = "VpnUser"

\* C4: with the database ready and an IP selected, the request answers
\* RealUser when the reader throws, finds no record, or finds a record whose
\* organization is missing or empty; no exception of the reader reaches the
\* client.
C4_NoDataRealUser ==
  res # Null =>
    /\ res.result \in {"DatabaseError", "Localhost", "VpnUser", "RealUser"}
    /\ (res.ready /\ res.key # Null) =>
         LET o == DatasetOutcome(db, res.key.v)
         IN /\ res.caught = (o = Throw)
            /\ o \in {Throw, Null, Record(Null), Record(Str(<<>>))} => res.result = "RealUser"

C4_Witness ==
  /\ res # Null
  /\ res.ready
  /\ res.key = Str(U("8.8.8.8,1.1.1.1"))
  /\ res.caught
  /\ res.result = "RealUser"

\* C5: a given, non-blank ip parameter is the lookup key, trimmed and not
\* normalized otherwise; without it the header is the source if it is not
\* empty, and the socket address only if the header is absent or empty.
C5_Selection ==
  (res # Null /\ res.ready) =>
    IF HasIpParam(req)
    THEN /\ res.ipToUse = Str(trim(req.ip.v))
         /\ res.key = res.ipToUse
         /\ res.on = "reader"
         /\ res.result # "Localhost"
    ELSE IF Present(req.xff) THEN res.ipToUse = normalizeIp(req.xff.v)
    ELSE IF Present(req.remoteAddress) THEN res.ipToUse = normalizeIp(req.remoteAddress.v)
    ELSE res.ipToUse = Null

C5_Witness ==
  /\ res # Null
  /\ res.ready
  /\ req.ip = Str(U("127.0.0.1"))
  /\ req.xff = Str(U("10.0.0.1"))
  /\ res.key = Str(U("127.0.0.1"))
  /\ res.result # "Localhost"

\* C6: with the database ready and no ip parameter, a source whose first
\* entry, without the IPv4-mapped prefix, is a loopback literal makes
\* normalizeIp return null, the reader is not invoked and the answer is
\* Localhost.
C6_LoopbackLocalhost ==
  (res # Null /\ res.ready /\ ~HasIpParam(req)
     /\ RawOf(req) # <<>> /\ AfterPrefix(AfterComma(RawOf(req))) \in Loopbacks) =>
    /\ res.ipToUse = Null
    /\ res.key = Null
    /\ res.on = "none"
    /\ res.result = "Localhost"

C6_Witness ==
  /\ res # Null
  /\ res.ready
  /\ req.ip = Null
  /\ req.xff = Str(U("::ffff:127.0.0.1"))
  /\ res.result = "Localhost"

\* C7: on an argument with a comma, the comma step leaves the substring before
\* the first comma without the white space around it, and the returned value
\* is that of the later steps on this entry alone.
C7_FirstEntryTrimmed ==
  HasComma(ipRaw) =>
    /\ npc \in {"mapped"} => ip = FirstEntry(ipRaw)
    /\ npc = "done" => ret = loopbackStep(mappedStep(FirstEntry(ipRaw)))

C7_Witness ==
  /\ npc = "done"
  /\ ipRaw = U(" 8.8.8.8,::1")
  /\ ret = Str(U("8.8.8.8"))

\* C8: the prefix step, applied to what the comma step left, removes the
\* prefix "::ffff:" and keeps all of the string after it, and leaves a value
\* without the prefix as it is.
C8_WholeRemainder ==
  npc = "loopback" => ip = AfterPrefix(AfterComma(ipRaw))

\* C9 as stated: a request repeated on the same dataset gets the verdict the
\* earlier one got.
C9_SameVerdict ==
  (seen # Null /\ SameRequest(req, seen.req)) => res.result = seen.res.result

\* C9, amended: a request repeated on the same dataset, with the reference in
\* the same state (set or not) as for the earlier one, gets the same verdict,
\* and so do two requests for which the reference is in the same state and
\* the selected IP is the same; no request changes the reference or the
\* dataset: the reference changes only when the load completes.
C9_SameReadinessSameVerdict ==
  /\ []((seen # Null /\ SameRequest(req, seen.req) /\ res.ready = seen.res.ready) =>
          res.result = seen.res.result)
  /\ []((seen # Null /\ res.ipToUse = seen.res.ipToUse /\ res.ready = seen.res.ready) =>
          res.result = seen.res.result)
  /\ [][lookup' # lookup => (loadState = "pending" /\ loadState' = "resolved")]_vars
  /\ [][db' = db]_vars

C9_Witness ==
  /\ seen # Null
  /\ SameRequest(req, seen.req)
  /\ seen.res.ready /\ res.ready
  /\ req.ip = Str(U("8.8.8.8"))
  /\ res.result = "VpnUser"

\* C10: normalizeIp returns null or a non-empty string, never the empty string.
C10_NeverEmpty ==
  npc = "done" => (ret = Null \/ ret.v # <<>>)

=============================================================================
